---- MODULE Spec2Model ----
(***************************************************************************)
(* A_stock_monit.  The chip-distribution engine:                           *)
(*   src/src/algorithm/chip_distribution.py, calculate_chip (Spec,         *)
(*   SpecCalls), with its ad-hoc copy generate_cm_result; and the K-line   *)
(*   sync service:                                                         *)
(*   src/src/data/service/kline_sync.py, src/src/data/repository/kline.py, *)
(*   src/scripts/init_kline.py (SpecSync); and the retry wrapper of the    *)
(*   data source client:                                                   *)
(*   src/src/data/source/juejin_client.py, _retry_call (SpecRetry).        *)
(*                                                                         *)
(* Number representation.  The code computes on Python floats; the model   *)
(* computes on integers:                                                   *)
(*   - a price is a whole number of ticks, TicksPerYuan ticks to the yuan  *)
(*     (0.005 yuan, so that prices off the 0.01 grid exist);               *)
(*   - inside one call every price is held in sub-ticks, PriceScale(af)    *)
(*     to the tick, which makes avg = (o+c+h+l)/4 and every bucket price   *)
(*     min_price + i*accuracy exact integers;                              *)
(*   - a chip mass is a whole number of 1/MassScale units, every product   *)
(*     and quotient rounded to the nearest unit (half to even) as the      *)
(*     float operation rounds its result;                                  *)
(*   - the significant-digit round trip float(f"{c:.12g}") keeps           *)
(*     CanonDigits significant digits of a mass;                           *)
(*   - returned prices are whole cents (round(x, 2)), returned ratios are  *)
(*     whole millionths (round(x, 6));                                     *)
(*   - the quotients under math.floor and math.ceil are exact.  The float  *)
(*     quotient of the code can fall just short of a whole number          *)
(*     ((10.01 - 10.0) / 0.01 < 1), which puts a mass one bucket lower     *)
(*     than the exact quotient does.                                       *)
(***************************************************************************)
EXTENDS Integers, Sequences, FiniteSets, TLC

(***************************************************************************)
(* Bounds of the model                                                     *)
(***************************************************************************)
MaxBars == 3
MaxTick == 4
MaxFactor == 3
MaxCalls == 3

(***************************************************************************)
(* Resolutions and program constants                                       *)
(***************************************************************************)
TicksPerYuan == 200
MassScale == 1000
CanonDigits == 4
PercentDen == 100
AvgDen == 4
MinAccuracyDen == 100
GNum == 2
FlatDen == 2
EpsDen == 100000000
CostDigits == 2
RatioDigits == 6
Percent90 == 90
Percent70 == 70
Percent50 == 50
TurnoverCol == 8

\* 0.01 yuan, the floor of the bucket width, in ticks
MinAccuracy == TicksPerYuan \div MinAccuracyDen

BasePrice == 10 * TicksPerYuan

(***************************************************************************)
(* Arithmetic helpers                                                      *)
(***************************************************************************)
Max(a, b) == IF a >= b THEN a ELSE b

Min(a, b) == IF a <= b THEN a ELSE b

Abs(a) == IF a < 0 THEN -a ELSE a

\* math.floor(n / d), d > 0
Floor(n, d) == n \div d

\* math.floor taken for math.ceil
CeilAsFloor(n, d) == n \div d

\* math.ceil(n / d), d > 0
Ceil(n, d) == -((-n) \div d)

\* n / d rounded to the nearest integer, ties to even (d # 0)
RoundHalfEven(n, d) ==
    LET nn == IF d < 0 THEN -n ELSE n
        dd == Abs(d)
        q == nn \div dd
        r == nn % dd
    IN  IF 2 * r > dd THEN q + 1
        ELSE IF 2 * r < dd THEN q
        ELSE IF q % 2 = 0 THEN q ELSE q + 1

RECURSIVE Pow10(_)
Pow10(k) == IF k <= 0 THEN 1 ELSE 10 * Pow10(k - 1)

\* number of decimal digits of a natural number
RECURSIVE Digits(_)
Digits(x) == IF x < 10 THEN 1 ELSE 1 + Digits(x \div 10)

\* long division: <<floor(n * 10^k / d), remainder>> for 0 <= n, 0 < d
RECURSIVE LongDiv(_, _, _, _)
LongDiv(q, r, d, k) ==
    IF k = 0 THEN <<q, r>>
    ELSE LongDiv(q * 10 + (r * 10) \div d, (r * 10) % d, d, k - 1)

\* round(n / d, k) as a whole number of 10^-k units, ties to even (d # 0)
RoundDec(n, d, k) ==
    LET neg == (n < 0) # (d < 0)
        an == Abs(n)
        ad == Abs(d)
        qr == LongDiv(an \div ad, an % ad, ad, k)
        q == qr[1]
        r == qr[2]
        m == IF 2 * r > ad THEN q + 1
             ELSE IF 2 * r < ad THEN q
             ELSE IF q % 2 = 0 THEN q ELSE q + 1
    IN  IF neg THEN -m ELSE m

\* the mass taken as it is, without the round trip through its digits
canonicalize_raw(c) == c

\* float(f"{c:.12g}"): the mass c rounded to CanonDigits significant digits
canonicalize(c) ==
    LET a == Abs(c)
        e == Digits(a) - CanonDigits
        m == IF e <= 0 THEN a ELSE RoundHalfEven(a, Pow10(e)) * Pow10(e)
    IN  IF c < 0 THEN -m ELSE m

(***************************************************************************)
(* Python list indexing and slicing                                        *)
(***************************************************************************)
\* range_val is None (<<>>) or an integer (<<r>>); `if range_val:` is its truth value
Truthy(rv) == rv # <<>> /\ rv[1] # 0

\* seq[i] raises IndexError unless -len <= i < len
InRange(seq, i) == -Len(seq) <= i /\ i < Len(seq)

\* seq[i] for an index that is in range (negative indices count from the end)
At(seq, i) == IF i < 0 THEN seq[Len(seq) + i + 1] ELSE seq[i + 1]

\* seq[lo:hi] for lo >= 0
Slice(seq, lo, hi) ==
    LET n == Len(seq)
        stop == IF hi < 0 THEN Max(0, n + hi) ELSE Min(n, hi)
    IN  IF lo >= stop THEN <<>> ELSE SubSeq(seq, lo + 1, stop)

(***************************************************************************)
(* Bin grid (lines 61-72)                                                  *)
(***************************************************************************)
\* sub-ticks per tick in a call with this accuracy_factor
PriceScale(af) == AvgDen * (af - 1)

\* max_price: the highest high of the window (lines 62, 64-65)
RECURSIVE MaxPrice(_)
MaxPrice(calc) ==
    IF Len(calc) = 1 THEN calc[1].high
    ELSE Max(MaxPrice(SubSeq(calc, 1, Len(calc) - 1)), calc[Len(calc)].high)

\* min_price: the lowest low of the window (lines 63, 64, 66)
RECURSIVE MinPrice(_)
MinPrice(calc) ==
    IF Len(calc) = 1 THEN calc[1].low
    ELSE Min(MinPrice(SubSeq(calc, 1, Len(calc) - 1)), calc[Len(calc)].low)

\* accuracy = max(0.01, (max_price - min_price) / (accuracy_factor - 1)), in sub-ticks
Accuracy(maxp, minp, af) ==
    Max(MinAccuracy * PriceScale(af), (maxp - minp) * AvgDen)

\* chips = [0.0] * accuracy_factor
ZeroChips(af) == [n \in 1 .. af |-> 0]

\* a chips array kept from one call to the next when its length fits
StaleChips(af, old) == IF Len(old) = af THEN old ELSE ZeroChips(af)

\* the chips a call starts from, given the array the previous call left behind
FreshChips(af, old) == ZeroChips(af)

\* bucket prices counted from 1 instead of 0
BucketPriceFromOne(minp, acc, af, j) == minp * PriceScale(af) + acc * (j + 1)

\* min_price + accuracy * j, in sub-ticks (bucket j counted from 0)
BucketPrice(minp, acc, af, j) == minp * PriceScale(af) + acc * j

(***************************************************************************)
(* Distribution accumulator: one bar of the loop (lines 75-116)            *)
(***************************************************************************)
\* a missing turnover field taken as a full turnover
turnover_rate_default_one(row) ==
    IF row.len > TurnoverCol THEN Min(PercentDen, row.turnover) ELSE PercentDen

\* turnover_rate = min(1, row[8] / 100) if len(row) > 8 else 0, in hundredths
turnover_rate(row) ==
    IF row.len > TurnoverCol THEN Min(PercentDen, row.turnover) ELSE 0

\* avg = (open + close + high + low) / 4, in sub-ticks
Avg(row, af) == (row.open + row.close + row.high + row.low) * (af - 1)

\* abs(d) < 1e-8 for a price difference d in sub-ticks
NearZero(d, af) == Abs(d) <= (PriceScale(af) * TicksPerYuan - 1) \div EpsDen

\* chips[n] *= (turnover_rate - 1): the decay with its factor negated
DecayNegated(ch, tr) ==
    [n \in 1 .. Len(ch) |-> RoundHalfEven(ch[n] * (tr - PercentDen), PercentDen)]

\* chips[n] *= (1 - turnover_rate)
Decay(ch, tr) ==
    [n \in 1 .. Len(ch) |-> RoundHalfEven(ch[n] * (PercentDen - tr), PercentDen)]

\* the mass of a one-price bar without the division by 2
FlatMassWhole(af, tr) == RoundHalfEven(MassScale * (af - 1) * tr, PercentDen)

\* g_point[0] * turnover_rate / 2 with g_point[0] = accuracy_factor - 1 (line 100)
FlatMass(af, tr) ==
    RoundHalfEven(MassScale * (af - 1) * tr, PercentDen * FlatDen)

\* g_point[0] = 2 / (high - low) (line 90)
TriangleG(row) == RoundHalfEven(MassScale * GNum * TicksPerYuan, row.high - row.low)

\* the mass a bar with high > low adds to bucket j (lines 106-116)
TriangleMass(row, minp, acc, af, j) ==
    LET ps == PriceScale(af)
        cur_price == BucketPrice(minp, acc, af, j)
        avg == Avg(row, af)
        low == row.low * ps
        high == row.high * ps
        g == TriangleG(row)
        tr == turnover_rate(row)
        full == RoundHalfEven(g * tr, PercentDen)
        part(num, den) ==
            RoundHalfEven(RoundHalfEven(RoundHalfEven(MassScale * num, den) * g, MassScale) * tr,
                          PercentDen)
    IN  IF cur_price <= avg
        THEN IF NearZero(avg - low, af) THEN full ELSE part(cur_price - low, avg - low)
        ELSE IF NearZero(high - avg, af) THEN full ELSE part(high - cur_price, high - avg)

\* the mass the bar adds to bucket j, counted from 0 (lines 83-90, 97-116)
Spread(row, minp, acc, af, j) ==
    LET ps == PriceScale(af)
        h_idx == Floor((row.high - minp) * ps, acc)
        l_idx == Ceil((row.low - minp) * ps, acc)
        g_idx == Floor(Avg(row, af) - minp * ps, acc)
    IN  IF row.high = row.low
        THEN IF j = g_idx THEN FlatMass(af, turnover_rate(row)) ELSE 0
        ELSE IF l_idx <= j /\ j <= h_idx
             THEN TriangleMass(row, minp, acc, af, j)
             ELSE 0

\* a loop body that spreads first and then decays every bucket
AccumulateRowSpreadFirst(ch, row, minp, acc, af) ==
    Decay([n \in 1 .. Len(ch) |-> ch[n] + Spread(row, minp, acc, af, n - 1)],
          turnover_rate(row))

\* the loop body for one bar: decay, then spread (lines 76-116)
AccumulateRow(ch, row, minp, acc, af) ==
    LET d == Decay(ch, turnover_rate(row))
    IN  [n \in 1 .. Len(ch) |-> d[n] + Spread(row, minp, acc, af, n - 1)]

(***************************************************************************)
(* Metrics resolver (lines 118-167)                                        *)
(***************************************************************************)
\* the sum of the canonicalized masses of the first n buckets
RECURSIVE SumCanon(_, _)
SumCanon(ch, n) == IF n <= 0 THEN 0 ELSE SumCanon(ch, n - 1) + canonicalize(ch[n])

\* the total taken over all buckets but the last
TotalShort(ch) == SumCanon(ch, Len(ch) - 1)

\* total = sum(float(f"{c:.12g}") for c in chips)
Total(ch) == SumCanon(ch, Len(ch))

\* the test of line 140 with > for >=
AtOrBelowStrict(price, current_price) == current_price > price

\* the test of line 140: current_price >= min_price + i * accuracy
AtOrBelow(price, current_price) == current_price >= price

\* below, after buckets 0 .. i-1 of the loop of lines 138-141 (cp in sub-ticks)
RECURSIVE Below(_, _, _, _, _, _)
Below(ch, minp, acc, af, cp, i) ==
    IF i = 0 THEN 0
    ELSE Below(ch, minp, acc, af, cp, i - 1)
         + (IF AtOrBelow(BucketPrice(minp, acc, af, i - 1), cp)
            THEN canonicalize(ch[i]) ELSE 0)

\* the loop of get_cost_by_chip from bucket i with running sum s; the amount
\* is total * num / den
RECURSIVE CostFrom(_, _, _, _, _, _, _, _)
CostFrom(ch, minp, acc, af, tnum, den, i, s) ==
    IF i >= af THEN BucketPrice(minp, acc, af, af - 1)
    ELSE LET val == canonicalize(ch[i + 1])
         IN  IF (s + val) * den > tnum
             THEN BucketPrice(minp, acc, af, i)
             ELSE CostFrom(ch, minp, acc, af, tnum, den, i + 1, s + val)

\* a lookup whose loop starts at the second bucket
get_cost_by_chip_skip(ch, minp, acc, af, num, den) ==
    CostFrom(ch, minp, acc, af, Total(ch) * num, den, 1, 0)

\* get_cost_by_chip(total * num / den), a price in sub-ticks
get_cost_by_chip(ch, minp, acc, af, num, den) ==
    CostFrom(ch, minp, acc, af, Total(ch) * num, den, 0, 0)

\* round(price, 2): sub-ticks to whole cents
RoundCost(price, af) ==
    RoundHalfEven(price * Pow10(CostDigits), PriceScale(af) * TicksPerYuan)

\* compute_percent with the two quantiles exchanged
compute_percent_swapped(ch, minp, acc, af, percent) ==
    LET pr0 == get_cost_by_chip(ch, minp, acc, af, PercentDen + percent, 2 * PercentDen)
        pr1 == get_cost_by_chip(ch, minp, acc, af, PercentDen - percent, 2 * PercentDen)
        concentration ==
            IF pr0 + pr1 = 0 THEN 0 ELSE RoundDec(pr1 - pr0, pr0 + pr1, RatioDigits)
    IN  <<<<RoundCost(pr0, af), RoundCost(pr1, af)>>, concentration>>

\* compute_percent(percent): <<(round(pr[0], 2), round(pr[1], 2)), round(concentration, 6)>>
compute_percent(ch, minp, acc, af, percent) ==
    LET pr0 == get_cost_by_chip(ch, minp, acc, af, PercentDen - percent, 2 * PercentDen)
        pr1 == get_cost_by_chip(ch, minp, acc, af, PercentDen + percent, 2 * PercentDen)
        concentration ==
            IF pr0 + pr1 = 0 THEN 0 ELSE RoundDec(pr1 - pr0, pr0 + pr1, RatioDigits)
    IN  <<<<RoundCost(pr0, af), RoundCost(pr1, af)>>, concentration>>

\* an outcome of calculate_chip that is an exception
Raised(what) ==
    [status |-> what, benefit_part |-> 0, avg_cost |-> 0,
     concentration_90 |-> 0, concentration_70 |-> 0,
     price_range_90 |-> <<0, 0>>, price_range_70 |-> <<0, 0>>]

\* ChipResult(...) of lines 160-167 (cp: current_price in ticks)
ChipResult(ch, minp, acc, af, cp) ==
    LET p90 == compute_percent(ch, minp, acc, af, Percent90)
        p70 == compute_percent(ch, minp, acc, af, Percent70)
        below == Below(ch, minp, acc, af, cp * PriceScale(af), af)
    IN  [status |-> "ok",
         benefit_part |-> RoundDec(below, Total(ch), RatioDigits),
         avg_cost |-> RoundCost(get_cost_by_chip(ch, minp, acc, af, Percent50, PercentDen), af),
         concentration_90 |-> p90[2], concentration_70 |-> p70[2],
         price_range_90 |-> p90[1], price_range_70 |-> p70[1]]

\* the open of the bar taken for its close
CurrentPriceOpen(kl, idx) == At(kl, idx).open

\* the close of the last bar of the list taken for the close of the target bar
CurrentPriceOfLastBar(kl, idx) == kl[Len(kl)].close

\* current_price = kline[index][2], for an index in range (line 124)
CurrentPrice(kl, idx) == At(kl, idx).close

\* steps 6-11: ZeroMass, then kline[index] (IndexError), then the result
Outcome(kl, idx, ch, minp, acc, af) ==
    IF Total(ch) = 0 THEN Raised("ZeroMass")
    ELSE IF ~InRange(kl, idx) THEN Raised("IndexError")
    ELSE ChipResult(ch, minp, acc, af, CurrentPrice(kl, idx))

(***************************************************************************)
(* Inputs                                                                  *)
(***************************************************************************)
\* a kline row [time, open, close, high, low, volume, amount, amplitude, turnover_rate]:
\* the fields the engine reads, and the length of the row
Bar(o, c, h, l, t, n) ==
    [open |-> o, close |-> c, high |-> h, low |-> l, turnover |-> t, len |-> n]

Levels == BasePrice .. BasePrice + MaxTick

CentLevels == {p \in Levels : p % MinAccuracy = 0}

Turnovers == {0, 50, 100}

WithField == TurnoverCol + 1

\* every bar with low <= open, close <= high on the tick grid
FineBars ==
    {Bar(o, c, h, l, t, WithField) :
        o \in Levels, c \in Levels, h \in Levels, l \in Levels, t \in Turnovers}
    \cap {b \in [open : Levels, close : Levels, high : Levels, low : Levels,
                 turnover : Turnovers, len : {WithField}] :
            b.low <= b.open /\ b.open <= b.high /\ b.low <= b.close /\ b.close <= b.high}

\* bars on the 0.01 grid with open = close and low <= close <= high, with a
\* turnover of 0, 50 or 100 percent or without the turnover field
CoarseBars ==
    LET shapes == {s \in [c : CentLevels, h : CentLevels, l : CentLevels] :
                     s.l <= s.c /\ s.c <= s.h}
    IN  {Bar(s.c, s.c, s.h, s.l, t, WithField) : s \in shapes, t \in Turnovers}
        \cup {Bar(s.c, s.c, s.h, s.l, 0, TurnoverCol) : s \in shapes}

\* one-price bars 0.01 apart, half of the shares changing hands on each
WindowBars ==
    {Bar(BasePrice + n * MinAccuracy, BasePrice + n * MinAccuracy,
         BasePrice + n * MinAccuracy, BasePrice + n * MinAccuracy, 50, WithField) :
        n \in 0 .. 2}

SeqsUpTo(S, n) == UNION {[1 .. m -> S] : m \in 0 .. n}

\* klines of up to MaxBars one-price bars, called with any index and lookback
WindowKlines == SeqsUpTo(WindowBars, MaxBars)

\* single bars of every shape and two-bar klines of coarse bars, called with
\* the default index and lookback
ShapeKlines == {<<b>> : b \in FineBars} \cup {<<a, b>> : a \in CoarseBars, b \in CoarseBars}

\* turnover fields outside 0 .. 100 percent
RawTurnovers == {-50, 150}

\* the coarse bars with a turnover field outside 0 .. 100
RawBars ==
    {Bar(b.open, b.close, b.high, b.low, t, WithField) : b \in CoarseBars, t \in RawTurnovers}

\* a bar with such a turnover, alone, after a one-price bar or, itself of one
\* price, after another one-price bar with such a turnover, called with the
\* default index and lookback
RawKlines ==
    {<<b>> : b \in RawBars}
        \cup {<<a, b>> : a \in WindowBars, b \in RawBars}
        \cup {<<a, b>> : a \in {r \in RawBars : r.high = r.low},
                         b \in {r \in RawBars : r.high = r.low}}

\* a one-price bar followed by a bar of any shape, called with the default
\* index and lookback
MixedKlines == {<<a, b>> : a \in WindowBars, b \in FineBars}

\* bars with low <= high whose open and close lie outside low .. high
SkewBars ==
    {Bar(o, o, h, l, 50, WithField) : o \in Levels, h \in Levels, l \in Levels}
    \cap {b \in [open : Levels, close : Levels, high : Levels, low : Levels,
                 turnover : {50}, len : {WithField}] :
            b.low <= b.high /\ (b.open < b.low \/ b.open > b.high)}

\* one such bar, called with the default index and lookback
SkewKlines == {<<b>> : b \in SkewBars}

Factors == 2 .. MaxFactor

Args(i, af, rv) == [index |-> i, accuracy_factor |-> af, range_val |-> rv]

\* the calls made on a window kline: any index, any lookback
WindowArgs(kl) ==
    {Args(i, af, rv) :
        i \in -(Len(kl) + 2) .. Len(kl) + 1,
        af \in Factors,
        rv \in {<<>>} \cup {<<r>> : r \in -1 .. Len(kl) + 1}}

\* the default call calculate_chip(kline, accuracy_factor = af)
ShapeArgs == {Args(-1, af, <<>>) : af \in Factors}

(***************************************************************************)
(* State                                                                   *)
(***************************************************************************)
VARIABLES
    kline,        \* the caller's bar sequence
    args,         \* the arguments of the call in progress
    pc,           \* "call", "accumulate", "done"
    index,        \* the local index, resolved at lines 49-50
    start,        \* line 53-55
    calc_data,    \* line 56
    max_price,    \* lines 62-66
    min_price,
    accuracy,     \* line 69, in sub-ticks
    chips,        \* line 72, mutated by the loop of line 75
    k,            \* the position of the loop of line 75 in calc_data
    processed,    \* the rows the loop has folded so far
    result,       \* what the call returned or raised
    history       \* the completed calls of this behaviour: <<args, result>>

chip_vars == <<kline, args, pc, index, start, calc_data, max_price, min_price,
               accuracy, chips, k, processed, result, history>>

\* the tables and the operator's process of the K-line sync service
VARIABLES
    stock_pool,         \* table stock_pool: the symbols listed, each on its board
    sync_meta,          \* table sync_meta: <<>> or <<the row of daily_kline>>
    kline_sync_status,  \* table kline_sync_status: the symbols with a row
    daily_kline,        \* table daily_kline: the <<symbol, date>> keys of its rows
    today,              \* date.today()
    spc,                \* "idle", "init_loop", "init_check", "retry_loop"
    all_symbols,        \* init_sync line 67
    completed,          \* init_sync line 73
    remaining,          \* the symbols the running loop has still to visit
    op,                 \* the operation the last step belongs to
    requests            \* the history() requests made by the last step

sync_locals == <<all_symbols, completed, remaining>>

sync_tables == <<stock_pool, sync_meta, kline_sync_status, daily_kline>>

sync_vars == <<sync_tables, today, spc, sync_locals, op, requests>>

\* one call of JuejinClient._retry_call
VARIABLES
    rpc,          \* "none", "loop" (at the head of the for loop), "done"
    max_retries,  \* self._max_retries
    attempt,      \* the loop variable
    attempts,     \* what each call of func did: returned a value or raised a message
    slept,        \* the delays passed to time.sleep, in seconds
    last_error,   \* <<>> for None, or <<the message of the last exception>>
    outcome       \* what _retry_call returned or raised

retry_vars == <<rpc, max_retries, attempt, attempts, slept, last_error, outcome>>

vars == <<chip_vars, sync_vars, retry_vars>>

\* _retry_call has not returned or raised
NoOutcome == [kind |-> "none", value |-> 0, message |-> <<>>]

\* no call of _retry_call
NoRetry ==
    /\ rpc = "none"
    /\ max_retries = 0
    /\ attempt = 0
    /\ attempts = <<>>
    /\ slept = <<>>
    /\ last_error = <<>>
    /\ outcome = NoOutcome

\* no sync process: empty tables, nothing running
NoSync ==
    /\ stock_pool = {}
    /\ sync_meta = <<>>
    /\ kline_sync_status = {}
    /\ daily_kline = {}
    /\ today = 0
    /\ spc = "idle"
    /\ all_symbols = <<>>
    /\ completed = {}
    /\ remaining = <<>>
    /\ op = "none"
    /\ requests = <<>>

locals == <<index, start, calc_data, max_price, min_price, accuracy, chips, k,
            processed>>

NoLocals ==
    /\ index = 0
    /\ start = 0
    /\ calc_data = <<>>
    /\ max_price = 0
    /\ min_price = 0
    /\ accuracy = 0
    /\ chips = <<>>
    /\ k = 0
    /\ processed = <<>>
    /\ result = Raised("none")
    /\ history = <<>>

Init ==
    /\ pc = "call"
    /\ \/ kline \in WindowKlines /\ args \in WindowArgs(kline)
       \/ kline \in ShapeKlines /\ args \in ShapeArgs
       \/ kline \in RawKlines /\ args \in ShapeArgs
       \/ kline \in MixedKlines /\ args \in ShapeArgs
       \/ kline \in SkewKlines /\ args \in ShapeArgs
    /\ NoLocals
    /\ NoSync
    /\ NoRetry

(***************************************************************************)
(* calculate_chip                                                          *)
(***************************************************************************)
\* lines 49-50
ResolveIndex(kl, i) == IF i < 0 THEN Len(kl) + i ELSE i

\* lines 53-55
Start(idx, rv) == IF Truthy(rv) THEN Max(0, idx - rv[1] + 1) ELSE 0

\* line 56
CalcData(kl, st, idx) == Slice(kl, st, idx + 1)

\* lines 49-72: window, price range, accuracy, fresh chips
SelectWindow ==
    /\ pc = "call"
    /\ LET idx == ResolveIndex(kline, args.index)
           st == Start(idx, args.range_val)
           cd == CalcData(kline, st, idx)
       IN  /\ index' = idx
           /\ start' = st
           /\ calc_data' = cd
           /\ processed' = <<>>
           /\ IF Len(cd) = 0
              THEN /\ result' = Raised("InvalidWindow")
                   /\ pc' = "done"
                   /\ UNCHANGED <<max_price, min_price, accuracy, chips, k>>
              ELSE /\ max_price' = MaxPrice(cd)
                   /\ min_price' = MinPrice(cd)
                   /\ accuracy' = Accuracy(MaxPrice(cd), MinPrice(cd), args.accuracy_factor)
                   /\ chips' = FreshChips(args.accuracy_factor, chips)
                   /\ k' = 1
                   /\ pc' = "accumulate"
                   /\ UNCHANGED result
    /\ UNCHANGED <<kline, args, history>>
    /\ UNCHANGED <<sync_vars, retry_vars>>

\* lines 75-116: one bar of the loop
AccumulateBar ==
    /\ pc = "accumulate"
    /\ k <= Len(calc_data)
    /\ chips' = AccumulateRow(chips, calc_data[k], min_price, accuracy,
                              args.accuracy_factor)
    /\ processed' = Append(processed, calc_data[k])
    /\ k' = k + 1
    /\ UNCHANGED <<kline, args, pc, index, start, calc_data, max_price, min_price,
                   accuracy, result, history>>
    /\ UNCHANGED <<sync_vars, retry_vars>>

\* lines 118-167: total, current price, metrics
Resolve ==
    /\ pc = "accumulate"
    /\ k > Len(calc_data)
    /\ result' = Outcome(kline, index, chips, min_price, accuracy, args.accuracy_factor)
    /\ pc' = "done"
    /\ UNCHANGED <<kline, args, locals, history>>
    /\ UNCHANGED <<sync_vars, retry_vars>>

Next == SelectWindow \/ AccumulateBar \/ Resolve

Spec == Init /\ [][Next]_vars

\* lines 75-116: chips after the loop over the first n rows of calc_data
RECURSIVE ChipsAfter(_, _, _, _, _)
ChipsAfter(rows, n, minp, acc, af) ==
    IF n = 0 THEN ZeroChips(af)
    ELSE AccumulateRow(ChipsAfter(rows, n - 1, minp, acc, af), rows[n], minp, acc, af)

\* lines 49-167: the outcome of calculate_chip(kline, index, accuracy_factor, range_val)
calculate_chip(kl, i, af, rv) ==
    LET idx == ResolveIndex(kl, i)
        cd == CalcData(kl, Start(idx, rv), idx)
    IN  IF Len(cd) = 0 THEN Raised("InvalidWindow")
        ELSE LET minp == MinPrice(cd)
                 acc == Accuracy(MaxPrice(cd), minp, af)
             IN  Outcome(kl, idx, ChipsAfter(cd, Len(cd), minp, acc, af), minp, acc, af)

(***************************************************************************)
(* A caller that calls the engine again and again on one kline             *)
(***************************************************************************)
\* the calls of the repeated caller with one accuracy_factor: last or first
\* bar, whole history or one bar
CallArgs(af) == {Args(i, af, rv) : i \in {-1, 0}, rv \in {<<>>, <<1>>}}

InitCalls ==
    /\ pc = "call"
    /\ kline \in WindowKlines
    /\ \E af \in Factors : args \in CallArgs(af)
    /\ NoLocals
    /\ NoSync
    /\ NoRetry

\* the call returns (or raises) and the caller makes its next call; the frame
\* of the finished call is left as it is, the next call builds its own
Return ==
    /\ pc = "done"
    /\ Len(history) + 1 < MaxCalls
    /\ history' = Append(history, [args |-> args, result |-> result])
    /\ args' \in CallArgs(args.accuracy_factor)
    /\ pc' = "call"
    /\ UNCHANGED <<kline, locals, result>>
    /\ UNCHANGED <<sync_vars, retry_vars>>

NextCalls == Next \/ Return

SpecCalls == InitCalls /\ [][NextCalls]_vars


(***************************************************************************)
(* The ad-hoc copy generate_cm_result (test/开发前测试/get_chom.py).  Its    *)
(* statements for the window start, the price range, the accuracy, the     *)
(* loop over the bars and the cost lookup are those of calculate_chip,     *)
(* so the operators above stand for them; what it does differently is      *)
(* written out here.                                                       *)
(***************************************************************************)
\* lines 30-34: the slice is taken with the index as given
CmCalcData(kdata, idx, rv) == Slice(kdata, Start(idx, rv), idx + 1)

\* lines 66-119: xdata after the loop over the first n rows
RECURSIVE CmXdata(_, _, _, _, _)
CmXdata(rows, n, minp, acc, af) ==
    IF n = 0 THEN ZeroChips(af)
    ELSE AccumulateRow(CmXdata(rows, n - 1, minp, acc, af), rows[n], minp, acc, af)

\* lines 144-151 and 190: get_benefit_part, 0 when total_chips is 0
get_benefit_part(xdata, minp, acc, af, cp) ==
    IF Total(xdata) = 0 THEN 0
    ELSE RoundDec(Below(xdata, minp, acc, af, cp * PriceScale(af), af),
                  Total(xdata), RatioDigits)

\* lines 154-172: compute_percent_chips, <<>> when it raises
compute_percent_chips(xdata, minp, acc, af, percent) ==
    IF percent > PercentDen \/ percent < 0 THEN <<>>
    ELSE compute_percent(xdata, minp, acc, af, percent)

\* lines 121-207: the result, in the fields of ChipResult
CmResult(xdata, minp, acc, af, cp) ==
    LET p90 == compute_percent_chips(xdata, minp, acc, af, Percent90)
        p70 == compute_percent_chips(xdata, minp, acc, af, Percent70)
    IN  IF p90 = <<>> \/ p70 = <<>> THEN Raised("InvalidPercent")
        ELSE [status |-> "ok",
              benefit_part |-> get_benefit_part(xdata, minp, acc, af, cp),
              avg_cost |-> RoundCost(get_cost_by_chip(xdata, minp, acc, af,
                                                      Percent50, PercentDen), af),
              concentration_90 |-> p90[2], concentration_70 |-> p70[2],
              price_range_90 |-> p90[1], price_range_70 |-> p70[1]]

\* generate_cm_result(kdata, index, accuracy_factor, range_val)
generate_cm_result(kdata, idx, af, rv) ==
    LET calc_kdata == CmCalcData(kdata, idx, rv)
        maxprice == MaxPrice(calc_kdata)
        minprice == MinPrice(calc_kdata)
        acc == Accuracy(maxprice, minprice, af)
        xdata == CmXdata(calc_kdata, Len(calc_kdata), minprice, acc, af)
    IN  IF Len(calc_kdata) = 0 THEN Raised("InvalidWindow")
        ELSE IF ~InRange(kdata, idx) THEN Raised("IndexError")
        ELSE CmResult(xdata, minprice, acc, af, CurrentPrice(kdata, idx))


(***************************************************************************)
(* The K-line sync service: KlineSyncService over KlineRepository, and the *)
(* operator's script init_kline.py.  Dates are day numbers; the span       *)
(* INIT_START .. INIT_END is one day long.  A fetch answers with no bar or *)
(* with one bar for every symbol and day asked for.  The status table only *)
(* ever receives rows with status 'completed'.                             *)
(***************************************************************************)
MaxSymbols == 3

MaxDay == 2

BatchSize == 1

INIT_START == 0

INIT_END == 1

TARGET_BOARDS == {"main", "gem"}

Symbols == 1 .. MaxSymbols

\* the board a symbol is listed on whenever the stock pool holds it
BoardOf(s) == <<"main", "gem", "star">>[((s - 1) % 3) + 1]

Pools == SUBSET Symbols

RECURSIVE SortedSeq(_)
SortedSeq(S) ==
    IF S = {} THEN <<>>
    ELSE LET m == CHOOSE x \in S : \A y \in S : x <= y
         IN  <<m>> \o SortedSeq(S \ {m})

Range(seq) == {seq[i] : i \in 1 .. Len(seq)}

\* StockQuery.get_symbols(board)
get_symbols(pool, board) == {s \in pool : BoardOf(s) = board}

\* KlineSyncService.get_target_symbols
get_target_symbols(pool) ==
    SortedSeq(UNION {get_symbols(pool, board) : board \in TARGET_BOARDS})

\* a check that takes any stored status for a completed initialisation
is_init_completed_started(meta) == meta # <<>>

\* KlineRepository.is_init_completed
is_init_completed(meta) ==
    IF meta = <<>> THEN FALSE ELSE meta[1].extra_info = "init_completed"

\* KlineRepository.set_init_status: INSERT OR REPLACE naming only table_name,
\* last_sync_at and extra_info; whether the engine keeps the sync_end_date of
\* a row it replaces is left open (kept)
set_init_status(meta, status, kept) ==
    <<[extra_info |-> status,
       sync_end_date |-> IF meta # <<>> /\ kept THEN meta[1].sync_end_date
                         ELSE <<>>]>>

\* KlineRepository.get_last_sync_date: <<>> for None
get_last_sync_date(meta) == IF meta = <<>> THEN <<>> ELSE meta[1].sync_end_date

\* KlineRepository.update_sync_date: an UPDATE, which needs the row
update_sync_date(meta, end_date) ==
    IF meta = <<>> THEN meta
    ELSE <<[meta[1] EXCEPT !.sync_end_date = <<end_date>>]>>

\* a query that finds no completed symbol
get_completed_symbols_none(status) == {}

\* KlineRepository.get_completed_symbols
get_completed_symbols(status) ==
    {row.symbol : row \in {r \in status : r.status = "completed"}}

\* KlineRepository.mark_symbol_completed
mark_symbol_completed(status, symbol, last_date) ==
    {r \in status : r.symbol # symbol}
        \cup {[symbol |-> symbol, status |-> "completed", last_date |-> last_date]}

\* KlineRepository.save_kline over BaseRepository.insert_df(mode="replace")
save_kline(table, df) == IF df = {} THEN table ELSE df

\* what history() can answer for one batch
FetchResults(symbols, start_date, end_date) ==
    {{}, {<<s, d>> : s \in symbols, d \in start_date .. end_date}}

\* JuejinClient.get_kline, line 354-355: the batches of the symbol list
RECURSIVE Batches(_)
Batches(symbols) ==
    IF symbols = <<>> THEN <<>>
    ELSE <<SubSeq(symbols, 1, Min(BatchSize, Len(symbols)))>>
             \o Batches(SubSeq(symbols, BatchSize + 1, Len(symbols)))

\* the loop over get_kline that saves every batch that is not empty: the
\* table it leaves, whether a request raised, the number of requests made
RECURSIVE SaveBatches(_, _, _, _)
SaveBatches(table, batches, start_date, end_date) ==
    IF batches = <<>> THEN {[table |-> table, raised |-> FALSE, asked |-> 0]}
    ELSE {[table |-> table, raised |-> TRUE, asked |-> 1]}
         \cup UNION {{[r EXCEPT !.asked = @ + 1] :
                         r \in SaveBatches(save_kline(table, df), Tail(batches),
                                           start_date, end_date)} :
                     df \in FetchResults(Range(Head(batches)), start_date, end_date)}

Request(o, symbols, start_date, end_date, raised) ==
    [op |-> o, symbols |-> symbols, start_date |-> start_date, end_date |-> end_date,
     raised |-> raised]

\* the requests of a loop over get_kline that made n of them, the last of
\* which raised or not
Requests(o, batches, n, start_date, end_date, raised) ==
    [i \in 1 .. n |->
        Request(o, Range(batches[i]), start_date, end_date, raised /\ i = n)]

\* init_sync line 74
Remaining(symbols, done) == SelectSeq(symbols, LAMBDA s : s \notin done)

\* a start on the last sync date itself
IncStartSame(last_date) == IF last_date # <<>> THEN last_date[1] ELSE INIT_END

\* incremental_sync line 150
IncStart(last_date) == IF last_date # <<>> THEN last_date[1] + 1 ELSE INIT_END

\* no chip calculation in progress
NoCall ==
    /\ kline = <<>>
    /\ args = Args(-1, MaxFactor, <<>>)
    /\ pc = "none"
    /\ NoLocals

InitSync ==
    /\ NoCall
    /\ NoRetry
    /\ stock_pool \in Pools
    /\ sync_meta = <<>>
    /\ kline_sync_status = {}
    /\ daily_kline = {}
    /\ today = 0
    /\ spc = "idle"
    /\ all_symbols = <<>>
    /\ completed = {}
    /\ remaining = <<>>
    /\ op = "none"
    /\ requests = <<>>

\* init_sync lines 58-81: up to the loop
InitSyncStart ==
    /\ spc = "idle"
    /\ op' = "init_sync"
    /\ requests' = <<>>
    /\ IF is_init_completed(sync_meta)
       THEN UNCHANGED <<sync_meta, spc, sync_locals>>
       ELSE \E kept \in BOOLEAN :
            LET in_progress == set_init_status(sync_meta, "init_in_progress", kept)
                symbols == get_target_symbols(stock_pool)
                done == get_completed_symbols(kline_sync_status)
                todo == Remaining(symbols, done)
            IN  IF symbols = <<>>
                THEN /\ sync_meta' = in_progress
                     /\ UNCHANGED <<spc, sync_locals>>
                ELSE IF todo = <<>>
                THEN /\ sync_meta' = set_init_status(in_progress, "init_completed", kept)
                     /\ UNCHANGED <<spc, sync_locals>>
                ELSE /\ sync_meta' = in_progress
                     /\ spc' = "init_loop"
                     /\ all_symbols' = symbols
                     /\ completed' = done
                     /\ remaining' = todo
    /\ UNCHANGED <<stock_pool, kline_sync_status, daily_kline, today>>
    /\ UNCHANGED <<chip_vars, retry_vars>>

\* the symbol marked whether its requests raised or not
StatusAfterAnyway(status, symbol, raised) ==
    mark_symbol_completed(status, symbol, INIT_END)

\* the try of the loop: mark_symbol_completed is reached only when
\* _sync_single_stock did not raise
StatusAfter(status, symbol, raised) ==
    IF raised THEN status ELSE mark_symbol_completed(status, symbol, INIT_END)

\* _sync_single_stock and mark_symbol_completed inside one try: the next symbol
\* of the loop
SyncStock(o) ==
    LET symbol == Head(remaining)
        batches == Batches(<<symbol>>)
    IN  /\ op' = o
        /\ \E out \in SaveBatches(daily_kline, batches, INIT_START, INIT_END) :
              /\ requests' = Requests(o, batches, out.asked, INIT_START, INIT_END,
                                       out.raised)
              /\ daily_kline' = out.table
              /\ kline_sync_status' = StatusAfter(kline_sync_status, symbol, out.raised)
        /\ remaining' = Tail(remaining)

\* init_sync lines 84-94: one symbol of the loop
InitSyncStock ==
    /\ spc = "init_loop"
    /\ remaining # <<>>
    /\ SyncStock("init_sync")
    /\ UNCHANGED <<stock_pool, sync_meta, today, spc, all_symbols, completed>>
    /\ UNCHANGED <<chip_vars, retry_vars>>

\* init_sync lines 96-104: after the loop
InitSyncFinish ==
    /\ spc = "init_loop"
    /\ remaining = <<>>
    /\ op' = "init_sync"
    /\ requests' = <<>>
    /\ LET final_completed == get_completed_symbols(kline_sync_status)
       IN  IF Cardinality(final_completed) >= Len(all_symbols)
           THEN \E kept \in BOOLEAN :
                  sync_meta' = update_sync_date(
                      set_init_status(sync_meta, "init_completed", kept), INIT_END)
           ELSE UNCHANGED sync_meta
    /\ spc' = "idle"
    /\ all_symbols' = <<>>
    /\ completed' = {}
    /\ UNCHANGED <<stock_pool, kline_sync_status, daily_kline, today, remaining>>
    /\ UNCHANGED <<chip_vars, retry_vars>>

\* incremental_sync, lines 138-172
IncrementalSync ==
    /\ spc = "idle"
    /\ op' = "incremental_sync"
    /\ LET last_date == get_last_sync_date(sync_meta)
           start_date == IncStart(last_date)
           symbols == get_target_symbols(stock_pool)
           batches == Batches(symbols)
       IN  IF \/ ~is_init_completed(sync_meta)
              \/ last_date # <<>> /\ last_date[1] >= today
              \/ symbols = <<>>
           THEN /\ requests' = <<>>
                /\ UNCHANGED <<sync_meta, daily_kline>>
           ELSE \E out \in SaveBatches(daily_kline, batches, start_date, today) :
                  /\ requests' = Requests("incremental_sync", batches, out.asked,
                                          start_date, today, out.raised)
                  /\ daily_kline' = out.table
                  /\ sync_meta' = IF out.raised THEN sync_meta
                                  ELSE update_sync_date(sync_meta, today)
    /\ UNCHANGED <<stock_pool, kline_sync_status, today, spc, sync_locals>>
    /\ UNCHANGED <<chip_vars, retry_vars>>

\* init_kline.py reset()
Reset ==
    /\ spc = "idle"
    /\ op' = "reset"
    /\ requests' = <<>>
    /\ kline_sync_status' = {}
    /\ \E kept \in BOOLEAN : sync_meta' = set_init_status(sync_meta, "init_reset", kept)
    /\ UNCHANGED <<stock_pool, daily_kline, today, spc, sync_locals>>
    /\ UNCHANGED <<chip_vars, retry_vars>>

\* init_kline.py retry_failed() lines 94-108: up to the loop
RetryFailedStart ==
    /\ spc = "idle"
    /\ op' = "retry_failed"
    /\ requests' = <<>>
    /\ LET failed == Remaining(get_target_symbols(stock_pool),
                               get_completed_symbols(kline_sync_status))
       IN  IF failed = <<>>
           THEN UNCHANGED <<spc, remaining>>
           ELSE spc' = "retry_loop" /\ remaining' = failed
    /\ UNCHANGED <<sync_tables, today, all_symbols, completed>>
    /\ UNCHANGED <<chip_vars, retry_vars>>

\* init_kline.py retry_failed() lines 115-133: one symbol of the loop, or its end
RetryFailedStock ==
    /\ spc = "retry_loop"
    /\ IF remaining # <<>>
       THEN SyncStock("retry_failed") /\ UNCHANGED spc
       ELSE /\ op' = "retry_failed"
            /\ requests' = <<>>
            /\ spc' = "idle"
            /\ UNCHANGED <<kline_sync_status, daily_kline, remaining>>
    /\ UNCHANGED <<stock_pool, sync_meta, today, all_symbols, completed>>
    /\ UNCHANGED <<chip_vars, retry_vars>>

\* the operator stops a running script
Interrupt ==
    /\ spc # "idle"
    /\ op' = "interrupt"
    /\ requests' = <<>>
    /\ spc' = "idle"
    /\ all_symbols' = <<>>
    /\ completed' = {}
    /\ remaining' = <<>>
    /\ UNCHANGED <<sync_tables, today>>
    /\ UNCHANGED <<chip_vars, retry_vars>>

\* the stock pool is synced again and its content changes
SyncStockPool ==
    /\ spc = "idle"
    /\ op' = "sync_stock_pool"
    /\ requests' = <<>>
    /\ stock_pool' \in Pools \ {stock_pool}
    /\ UNCHANGED <<sync_meta, kline_sync_status, daily_kline, today, spc, sync_locals>>
    /\ UNCHANGED <<chip_vars, retry_vars>>

\* midnight
NextDay ==
    /\ today < MaxDay
    /\ op' = "next_day"
    /\ requests' = <<>>
    /\ today' = today + 1
    /\ UNCHANGED <<sync_tables, spc, sync_locals>>
    /\ UNCHANGED <<chip_vars, retry_vars>>

NextSync ==
    \/ InitSyncStart
    \/ InitSyncStock
    \/ InitSyncFinish
    \/ IncrementalSync
    \/ Reset
    \/ RetryFailedStart
    \/ RetryFailedStock
    \/ Interrupt
    \/ SyncStockPool
    \/ NextDay

SpecSync == InitSync /\ [][NextSync]_vars

(***************************************************************************)
(* JuejinClient._retry_call (src/data/source/juejin_client.py, lines       *)
(* 109-155).  The message of an exception is the set of the keywords the   *)
(* code looks for that its lower-cased text contains.                      *)
(***************************************************************************)
MaxRetries == 3

DEFAULT_BASE_DELAY == 1

Keywords == {"rate", "limit", "token", "auth"}

Messages == SUBSET Keywords

\* the values func can return
Values == {1, 2}

\* what one call of func can do
CallOutcomes ==
    {[ok |-> TRUE, value |-> v, message |-> {}] : v \in Values}
        \cup {[ok |-> FALSE, value |-> 0, message |-> m] : m \in Messages}

RECURSIVE Pow2(_)
Pow2(n) == IF n <= 0 THEN 1 ELSE 2 * Pow2(n - 1)

\* line 141: "rate" in error_msg or "limit" in error_msg
IsRateLimit(msg) == "rate" \in msg \/ "limit" \in msg

\* line 145: "token" in error_msg or "auth" in error_msg
IsAuthError(msg) == "token" \in msg \/ "auth" \in msg

\* line 149: delay = _DEFAULT_BASE_DELAY * (2 ** attempt)
Delay(n) == DEFAULT_BASE_DELAY * Pow2(n)

\* a loop that runs once more than max_retries times
ExhaustedAfterOneMore(n, retries) == n > retries

\* line 132: range(self._max_retries) has no attempt left
Exhausted(n, retries) == n >= retries

Returns(v) == [kind |-> "return", value |-> v, message |-> <<>>]

Raises(kind, message) == [kind |-> kind, value |-> 0, message |-> message]

InitRetry ==
    /\ NoCall
    /\ NoSync
    /\ rpc = "loop"
    /\ max_retries \in 0 .. MaxRetries
    /\ attempt = 0
    /\ attempts = <<>>
    /\ slept = <<>>
    /\ last_error = <<>>
    /\ outcome = NoOutcome

\* lines 132-153: one pass of the loop body
Attempt ==
    /\ rpc = "loop"
    /\ ~Exhausted(attempt, max_retries)
    /\ \E r \in CallOutcomes :
          /\ attempts' = Append(attempts, r)
          /\ IF r.ok
             THEN /\ outcome' = Returns(r.value)
                  /\ rpc' = "done"
                  /\ UNCHANGED <<attempt, slept, last_error>>
             ELSE /\ last_error' = <<r.message>>
                  /\ IF IsRateLimit(r.message)
                     THEN /\ outcome' = Raises("JuejinRateLimitError", <<>>)
                          /\ rpc' = "done"
                          /\ UNCHANGED <<attempt, slept>>
                     ELSE IF IsAuthError(r.message)
                     THEN /\ outcome' = Raises("JuejinAuthError", <<r.message>>)
                          /\ rpc' = "done"
                          /\ UNCHANGED <<attempt, slept>>
                     ELSE /\ slept' = Append(slept, Delay(attempt))
                          /\ attempt' = attempt + 1
                          /\ UNCHANGED <<rpc, outcome>>
    /\ UNCHANGED max_retries
    /\ UNCHANGED <<chip_vars, sync_vars>>

\* line 155: the loop is over
Exhaust ==
    /\ rpc = "loop"
    /\ Exhausted(attempt, max_retries)
    /\ outcome' = Raises("JuejinAPIError", last_error)
    /\ rpc' = "done"
    /\ UNCHANGED <<max_retries, attempt, attempts, slept, last_error>>
    /\ UNCHANGED <<chip_vars, sync_vars>>

NextRetry == Attempt \/ Exhaust

SpecRetry == InitRetry /\ [][NextRetry]_vars


(***************************************************************************)
(* Properties                                                              *)
(***************************************************************************)
\* a bar with low <= open, close <= high and a turnover field, if any, in 0..100
ValidBar(b) ==
    /\ b.low <= b.open /\ b.open <= b.high
    /\ b.low <= b.close /\ b.close <= b.high
    /\ b.len > TurnoverCol => (0 <= b.turnover /\ b.turnover <= PercentDen)

ValidWindow == \A n \in 1 .. Len(calc_data) : ValidBar(calc_data[n])

\* the call has returned a ChipResult
Returned == pc = "done" /\ result.status = "ok"

One == Pow10(RatioDigits)

\* round(p, 2) of a price in ticks, in cents
RoundTicks(p) == RoundHalfEven(p * Pow10(CostDigits), TicksPerYuan)

\* a price in cents, in ticks
CentsToTicks(c) == c * MinAccuracy

\* C1: for every valid window (a ChipResult is returned, every bar of the
\* window is valid) the returned benefit_part lies in [0, 1].
C1_BenefitInUnitInterval ==
    (Returned /\ ValidWindow) => (0 <= result.benefit_part /\ result.benefit_part <= One)

\* C1 witness: a valid window whose benefit_part is strictly between 0 and 1.
C1_Witness ==
    Returned /\ ValidWindow /\ 0 < result.benefit_part /\ result.benefit_part < One

\* C2: for every valid window the returned 70% price range is nested inside
\* the returned 90% price range.
C2_RangesNested ==
    (Returned /\ ValidWindow) =>
        /\ result.price_range_90[1] <= result.price_range_70[1]
        /\ result.price_range_70[1] <= result.price_range_70[2]
        /\ result.price_range_70[2] <= result.price_range_90[2]

\* C2 witness: a valid window whose 70% range is strictly narrower than its
\* 90% range and is not a single price.
C2_Witness ==
    /\ Returned /\ ValidWindow
    /\ result.price_range_90[1] < result.price_range_70[1]
    /\ result.price_range_70[1] < result.price_range_70[2]

\* C3 as stated: for every valid window the returned avg_cost lies within
\* [min_price, max_price] of the selected window.
C3_AvgCostWithinWindowRange ==
    (Returned /\ ValidWindow) =>
        (min_price <= CentsToTicks(result.avg_cost)
         /\ CentsToTicks(result.avg_cost) <= max_price)

\* C3 amended: for every valid window the returned avg_cost lies within
\* [round(min_price, 2), round(max_price, 2)], and the price it is rounded
\* from lies within [min_price, max_price].
C3_AvgCostWithinRoundedRange ==
    (Returned /\ ValidWindow) =>
        LET af == args.accuracy_factor
            cost == get_cost_by_chip(chips, min_price, accuracy, af, Percent50, PercentDen)
        IN  /\ RoundTicks(min_price) <= result.avg_cost
            /\ result.avg_cost <= RoundTicks(max_price)
            /\ min_price * PriceScale(af) <= cost
            /\ cost <= max_price * PriceScale(af)

\* C3 witness: a valid window off the 0.01 grid whose bucket width is floored
\* at 0.01, so that the grid reaches beyond max_price, and whose avg_cost is
\* below min_price.
C3_Witness ==
    /\ Returned /\ ValidWindow
    /\ accuracy = MinAccuracy * PriceScale(args.accuracy_factor)
    /\ BucketPrice(min_price, accuracy, args.accuracy_factor, args.accuracy_factor - 1)
         > max_price * PriceScale(args.accuracy_factor)
    /\ CentsToTicks(result.avg_cost) < min_price

\* the completed calls of the behaviour, the one just finished included
Completed ==
    IF pc = "done" THEN Append(history, [args |-> args, result |-> result]) ELSE history

\* C4: two calls with equal (kline, index, accuracy_factor, range_val) yield
\* equal outcomes, whatever calls were made before or in between.
C4_EqualCallsEqualOutcomes ==
    \A i \in 1 .. Len(Completed) : \A j \in 1 .. Len(Completed) :
        Completed[i].args = Completed[j].args => Completed[i].result = Completed[j].result

\* C4 witness: a call that returned a ChipResult, a different call, and the
\* first call made again.
C4_Witness ==
    /\ Len(Completed) >= 3
    /\ Completed[1].args = Completed[3].args
    /\ Completed[1].args # Completed[2].args
    /\ Completed[1].result.status = "ok"
    /\ Completed[2].result # Completed[1].result

\* the window is one bar with open = close = high = low and turnover in (0, 100]
OnePriceWindow ==
    /\ Len(calc_data) = 1
    /\ calc_data[1].high = calc_data[1].low
    /\ calc_data[1].open = calc_data[1].low
    /\ calc_data[1].close = calc_data[1].low
    /\ calc_data[1].len > TurnoverCol
    /\ 0 < calc_data[1].turnover /\ calc_data[1].turnover <= PercentDen

\* C5: for a single-bar window with open = close = high = low = p and a
\* turnover in (0, 100], all mass lies in exactly one bucket, the one at
\* price p, the call does not fail for lack of mass, and a returned result
\* has avg_cost = round(p, 2) and benefit_part = 1.
C5_OnePriceBar ==
    (pc = "done" /\ OnePriceWindow) =>
        LET af == args.accuracy_factor
            p == calc_data[1].close
            full == {n \in 1 .. af : chips[n] # 0}
        IN  /\ Cardinality(full) = 1
            /\ \A n \in full : BucketPrice(min_price, accuracy, af, n - 1) = p * PriceScale(af)
            /\ result.status # "ZeroMass"
            /\ result.status = "ok" =>
                   (result.avg_cost = RoundTicks(p) /\ result.benefit_part = One)

\* C5 witness: the one-bar kline at 10.00 with a turnover of 50 has returned.
C5_Witness ==
    /\ Returned /\ OnePriceWindow
    /\ Len(kline) = 1 /\ args.index = -1 /\ args.range_val = <<>>
    /\ calc_data[1].close = BasePrice /\ calc_data[1].turnover = 50
    /\ result.avg_cost = 10 * Pow10(CostDigits)

\* C6 as stated: a call whose range_val produces an empty slice
\* kline[max(0, index - range_val + 1) : index + 1], such as index = 0 with
\* range_val = 0, fails with InvalidWindow.
C6_EmptySliceIsInvalidWindow ==
    (pc = "done" /\ args.range_val # <<>>
        /\ Slice(kline, Max(0, index - args.range_val[1] + 1), index + 1) = <<>>)
    => result.status = "InvalidWindow"

\* all bars of the window have zero turnover or no turnover field
NoTurnover ==
    \A n \in 1 .. Len(calc_data) :
        calc_data[n].len > TurnoverCol => calc_data[n].turnover = 0

\* C7: if every bar of the selected (non-empty) window has zero turnover or
\* no turnover field, the call fails with ZeroMass.
C7_NoTurnoverIsZeroMass ==
    (pc = "done" /\ calc_data # <<>> /\ NoTurnover) => result.status = "ZeroMass"

\* C7 witness: a two-bar window, one bar with turnover 0 and one without the
\* field, has failed with ZeroMass.
C7_Witness ==
    /\ pc = "done" /\ Len(calc_data) = 2 /\ NoTurnover
    /\ calc_data[1].len > TurnoverCol /\ calc_data[2].len <= TurnoverCol
    /\ calc_data[1].high > calc_data[1].low
    /\ result.status = "ZeroMass"

\* C8 as stated: the call fails with InvalidWindow whenever the input is
\* empty or the resolved index is out of bounds.
C8_OutOfBoundsIsInvalidWindow ==
    (pc = "done" /\ (Len(kline) = 0 \/ index < 0 \/ index >= Len(kline)))
    => result.status = "InvalidWindow"

\* start as the specification gives it: max(0, index - range_val + 1) when a
\* range_val is given, 0 otherwise
GivenStart == IF args.range_val # <<>> THEN Max(0, index - args.range_val[1] + 1) ELSE 0

\* C9 as stated: for an in-bounds resolved index the bars processed are
\* exactly kline[start..index] in ascending order, with start =
\* max(0, index - range_val + 1) when range_val is given and 0 otherwise.
C9_ProcessedIsWindow ==
    (pc = "done" /\ 0 <= index /\ index < Len(kline)) =>
        processed = (IF GivenStart > index THEN <<>>
                     ELSE SubSeq(kline, GivenStart + 1, index + 1))

\* the buckets at or below the current price
RECURSIVE SumOver(_, _)
SumOver(ch, S) ==
    IF S = {} THEN 0
    ELSE LET n == CHOOSE m \in S : TRUE
         IN  canonicalize(ch[n]) + SumOver(ch, S \ {n})

\* C10: the returned benefit_part is, rounded to 6 decimals, the canonicalized
\* mass of the buckets i with min_price + i*accuracy <= current_price divided
\* by the total canonicalized mass, current_price being the close of the last
\* bar of the window.
C10_BenefitPartFormula ==
    Returned =>
        LET af == args.accuracy_factor
            last == calc_data[Len(calc_data)]
            under == {n \in 1 .. af :
                        min_price * PriceScale(af) + (n - 1) * accuracy
                            <= last.close * PriceScale(af)}
        IN  /\ processed = calc_data
            /\ result.benefit_part
                 = RoundDec(SumOver(chips, under), SumOver(chips, 1 .. af), RatioDigits)

\* C10 witness: a returned result of a window of two bars with mass on both
\* sides of the current price.
C10_Witness ==
    /\ Returned
    /\ Len(calc_data) = 2
    /\ \E n \in 1 .. args.accuracy_factor :
          /\ chips[n] > 0
          /\ BucketPrice(min_price, accuracy, args.accuracy_factor, n - 1)
               > calc_data[Len(calc_data)].close * PriceScale(args.accuracy_factor)
    /\ 0 < result.benefit_part

\* both calls failed, or both returned and returned the same fields
SameOutcome(a, b) ==
    \/ a.status # "ok" /\ b.status # "ok"
    \/ a.status = "ok" /\ b.status = "ok" /\ a = b

\* C14: whenever calculate_chip has returned or raised, generate_cm_result on
\* the same bars, index, accuracy_factor and range_val fails too or returns
\* the same benefit_part, avg_cost, price ranges and concentrations.
C14_CopiesAgree ==
    pc = "done"
        => SameOutcome(result, generate_cm_result(kline, args.index,
                                                  args.accuracy_factor, args.range_val))

\* clamp(turnover_field / 100, 0, 1) in hundredths, 0 without the field
ClampedTurnover(row) ==
    IF row.len > TurnoverCol THEN Max(0, Min(PercentDen, row.turnover)) ELSE 0

\* C15: for every bar the loop has folded, whatever its turnover field, the
\* turnover_rate used for it equals clamp(turnover_field / 100, 0, 1), so it
\* lies in [0, 1], and is 0 for a bar without the field.
C15_TurnoverRateClamped ==
    \A n \in 1 .. Len(processed) :
        /\ turnover_rate(processed[n]) = ClampedTurnover(processed[n])
        /\ 0 <= turnover_rate(processed[n])
        /\ turnover_rate(processed[n]) <= PercentDen

\* C16: each step of the loop folds the next bar of the window in order, and
\* leaves in every bucket its previous value times (1 - turnover_rate) plus
\* the undecayed mass the bar spreads to that bucket; so a bucket that gets
\* no mass from the bar holds exactly its decayed previous value.
C16_DecayThenSpread ==
    [][(pc = "accumulate" /\ k' = k + 1)
          => LET row == calc_data[k]
                 tr == turnover_rate(row)
             IN  /\ processed' = SubSeq(calc_data, 1, k)
                 /\ \A n \in 1 .. Len(chips) :
                       chips'[n] = RoundHalfEven(chips[n] * (PercentDen - tr), PercentDen)
                                   + Spread(row, min_price, accuracy,
                                            args.accuracy_factor, n - 1)]_vars

\* the second bar of a window decayed one bucket that held mass without adding
\* to it, and added to another
C16_Witness ==
    /\ pc = "accumulate"
    /\ Len(processed) = 2
    /\ ValidWindow
    /\ turnover_rate(processed[2]) > 0
    /\ turnover_rate(processed[2]) < PercentDen
    /\ \E n \in 1 .. Len(chips) :
          /\ chips[n] > 0
          /\ Spread(processed[2], min_price, accuracy, args.accuracy_factor, n - 1) = 0
    /\ \E n \in 1 .. Len(chips) :
          Spread(processed[2], min_price, accuracy, args.accuracy_factor, n - 1) > 0

\* the mass turnover_rate * G * num / den in the model's fixed-point masses
C17Ratio(row, num, den) ==
    RoundHalfEven(
        RoundHalfEven(RoundHalfEven(MassScale * num, den) * TriangleG(row), MassScale)
            * turnover_rate(row),
        PercentDen)

\* the mass C17 gives bucket j for a bar with high > low
C17Amount(row, j) ==
    LET ps == PriceScale(args.accuracy_factor)
        p == min_price * ps + j * accuracy
        low == row.low * ps
        high == row.high * ps
        avg == Avg(row, args.accuracy_factor)
        whole == RoundHalfEven(TriangleG(row) * turnover_rate(row), PercentDen)
    IN  IF p < low \/ p > high THEN 0
        ELSE IF p <= avg
             THEN IF avg = low THEN whole ELSE C17Ratio(row, p - low, avg - low)
             ELSE IF high = avg THEN whole ELSE C17Ratio(row, high - p, high - avg)

AvgBucket(row) ==
    (Avg(row, args.accuracy_factor) - min_price * PriceScale(args.accuracy_factor))
        \div accuracy

CostAmounts == {-10, 0, 5, 15, 50, 85, 95, 100, 110}

\* the first bucket, counted from 0, at which the sum of the canonicalized
\* masses of buckets 0 .. i exceeds total * a / 100; the last bucket if none
FirstBucket(ch, a) ==
    LET over == {i \in 0 .. Len(ch) - 1 : SumCanon(ch, i + 1) * PercentDen > Total(ch) * a}
    IN  IF over = {} THEN Len(ch) - 1
        ELSE CHOOSE i \in over : \A j \in over : i <= j

\* get_cost_by_chip(total * a / 100) on the buckets of the call
CostOf(a) ==
    get_cost_by_chip(chips, min_price, accuracy, args.accuracy_factor, a, PercentDen)

\* C19: on the buckets of every call that returned, get_cost_by_chip(amount)
\* is the price of the first bucket at which the running sum of canonicalized
\* masses exceeds amount, and of the last bucket if there is none; when no
\* mass is negative it is monotone non-decreasing in amount and, for
\* 0 <= amount < total, the bucket it returns holds positive mass.
C19_CostByChip ==
    Returned
        => /\ \A a \in CostAmounts :
                 CostOf(a) = min_price * PriceScale(args.accuracy_factor)
                             + FirstBucket(chips, a) * accuracy
           /\ result.avg_cost
                  = RoundCost(min_price * PriceScale(args.accuracy_factor)
                                  + FirstBucket(chips, Percent50) * accuracy,
                              args.accuracy_factor)
           /\ (\A n \in 1 .. Len(chips) : chips[n] >= 0)
                  => /\ \A a \in CostAmounts : \A b \in CostAmounts :
                           a <= b => CostOf(a) <= CostOf(b)
                     /\ \A a \in CostAmounts :
                           (0 <= a /\ a < PercentDen)
                               => chips[FirstBucket(chips, a) + 1] > 0

\* a call returned whose lookups at three amounts fall into three buckets
C19_Witness ==
    /\ Returned
    /\ ValidWindow
    /\ \E a \in CostAmounts : \E b \in CostAmounts : \E c \in CostAmounts :
          /\ 0 <= a /\ a < b /\ b < c /\ c < PercentDen
          /\ CostOf(a) < CostOf(b)
          /\ CostOf(b) < CostOf(c)

\* round((hi - lo) / (lo + hi), 6) of a returned price range, 0 when lo + hi = 0
RangeConcentration(range) ==
    IF range[1] + range[2] = 0 THEN 0
    ELSE RoundDec(range[2] - range[1], range[1] + range[2], RatioDigits)

\* C20: in every returned result, concentration_90 and concentration_70 are
\* the value round((hi - lo) / (lo + hi), 6), or 0 when lo + hi = 0, of the
\* returned 2-decimal price_range_90 and price_range_70.
C20_ConcentrationOfReturnedRange ==
    Returned
        => /\ result.concentration_90 = RangeConcentration(result.price_range_90)
           /\ result.concentration_70 = RangeConcentration(result.price_range_70)

\* arguments of the percentile helper outside [0, 1], in hundredths
BadPercents == {-10, 110}

\* C21: on the buckets of every call that returned, the percentile helper of
\* the library (compute_percent) and that of the script copy
\* (compute_percent_chips) both raise for an argument outside [0, 1] instead
\* of looking prices up and returning a range.
C21_PercentGuard ==
    Returned
        => \A p \in BadPercents :
              /\ compute_percent(chips, min_price, accuracy, args.accuracy_factor, p) = <<>>
              /\ compute_percent_chips(chips, min_price, accuracy,
                                       args.accuracy_factor, p) = <<>>

\* a mass cut to CanonDigits significant digits, half to even
SignificantDigits(c) ==
    LET a == IF c < 0 THEN -c ELSE c
        e == Digits(a) - CanonDigits
        m == IF e <= 0 THEN a
             ELSE LET q == a \div Pow10(e)
                      r == a % Pow10(e)
                  IN  (IF 2 * r > Pow10(e) \/ (2 * r = Pow10(e) /\ q % 2 = 1)
                       THEN q + 1 ELSE q) * Pow10(e)
    IN  IF c < 0 THEN -m ELSE m

\* the sum of vals[n] over the n in S
RECURSIVE PlainSum(_, _)
PlainSum(vals, S) ==
    IF S = {} THEN 0
    ELSE LET n == CHOOSE m \in S : TRUE
         IN  vals[n] + PlainSum(vals, S \ {n})

\* C22: in every returned result the total mass, the benefit_part and the
\* looked-up avg_cost are those computed from the canonicalized bucket values
\* alone: the total is their sum, benefit_part is the canonicalized mass at
\* or below the current price over that total, and avg_cost is the price of
\* the first bucket at which their running sum exceeds half of that total.
C22_CanonicalizedEverywhere ==
    Returned =>
        LET af == args.accuracy_factor
            canon == [n \in 1 .. af |-> SignificantDigits(chips[n])]
            total == PlainSum(canon, 1 .. af)
            cp == CurrentPrice(kline, index) * PriceScale(af)
            under == {n \in 1 .. af : min_price * PriceScale(af) + (n - 1) * accuracy <= cp}
            over == {n \in 1 .. af : PlainSum(canon, 1 .. n) * PercentDen > total * Percent50}
            first == IF over = {} THEN af ELSE CHOOSE n \in over : \A m \in over : n <= m
        IN  /\ Total(chips) = total
            /\ result.benefit_part = RoundDec(PlainSum(canon, under), total, RatioDigits)
            /\ result.avg_cost
                  = RoundCost(min_price * PriceScale(af) + (first - 1) * accuracy, af)

\* a returned result with a bucket whose raw value has more digits than the
\* canonicalization keeps, and with a benefit_part that differs from the one
\* the raw values give
C22_Witness ==
    /\ Returned
    /\ ValidWindow
    /\ \E n \in 1 .. Len(chips) : chips[n] > 0 /\ SignificantDigits(chips[n]) # chips[n]
    /\ LET af == args.accuracy_factor
           cp == CurrentPrice(kline, index) * PriceScale(af)
           under == {n \in 1 .. af : min_price * PriceScale(af) + (n - 1) * accuracy <= cp}
       IN  result.benefit_part
               # RoundDec(PlainSum(chips, under), PlainSum(chips, 1 .. af), RatioDigits)

\* C23: while the window is accumulated and afterwards, if every bar of the
\* window has low <= open, close <= high and a turnover field in [0, 100],
\* every bucket value is >= 0 after each processed bar.
C23_MassesNeverNegative ==
    (pc \in {"accumulate", "done"} /\ ValidWindow)
        => \A n \in 1 .. Len(chips) : chips[n] >= 0

\* two bars of a valid window are processed, the second decays the mass of
\* the first by a turnover strictly between 0 and 100 and spreads its own
\* over a price range
C23_Witness ==
    /\ pc = "accumulate"
    /\ ValidWindow
    /\ Len(processed) >= 2
    /\ processed[1].turnover > 0
    /\ processed[2].turnover = 50
    /\ processed[2].high > processed[2].low
    /\ \E n \in 1 .. Len(chips) :
          /\ chips[n] > 0
          /\ Spread(processed[2], min_price, accuracy, args.accuracy_factor, n - 1) > 0
    /\ \E n \in 1 .. Len(chips) :
          /\ chips[n] > 0
          /\ Spread(processed[2], min_price, accuracy, args.accuracy_factor, n - 1) = 0

\* C24: for accuracy_factor >= 2, a target bar inside the list and a window
\* whose bars have low <= open, close <= high, if at least one bar of the
\* window has turnover > 0 then the call returns a ChipResult with positive
\* total mass.
C24_ZeroMassOnlyWithoutTurnover ==
    (/\ pc = "done"
     /\ index \in 0 .. Len(kline) - 1
     /\ args.accuracy_factor >= 2
     /\ \A n \in 1 .. Len(calc_data) :
           /\ calc_data[n].low <= calc_data[n].open /\ calc_data[n].open <= calc_data[n].high
           /\ calc_data[n].low <= calc_data[n].close /\ calc_data[n].close <= calc_data[n].high
     /\ \E n \in 1 .. Len(calc_data) :
           calc_data[n].len > TurnoverCol /\ calc_data[n].turnover > 0)
        => (Returned /\ Total(chips) > 0)

\* C25: every returned result has 0 <= concentration_70 <= concentration_90 < 1
\* (every price of the model is positive).
C25_ConcentrationsOrdered ==
    Returned
        => /\ 0 <= result.concentration_70
           /\ result.concentration_70 <= result.concentration_90
           /\ result.concentration_90 < One

\* a bar whose close is not the close of the target bar
OtherBar == CHOOSE w \in WindowBars : w.close # calc_data[Len(calc_data)].close

\* the call on the list made of the bar lists pre, the window and post, with
\* the index on the last bar of the window
WindowCall(pre, post, rv) ==
    [kl |-> pre \o calc_data \o post, i |-> Len(pre) + Len(calc_data) - 1, rv |-> rv]

\* calls that select the window of the call in progress: on the window alone,
\* with a bar added after the target bar, and with a bar added before the
\* window (the lookback then being the length of the window)
SameWindowCalls ==
    {c \in {WindowCall(<<>>, <<>>, <<Len(calc_data)>>),
            WindowCall(<<>>, <<OtherBar>>, args.range_val),
            WindowCall(<<OtherBar>>, <<>>, <<Len(calc_data)>>),
            WindowCall(<<OtherBar>>, <<OtherBar>>, <<Len(calc_data)>>)} :
        CalcData(c.kl, Start(c.i, c.rv), c.i) = calc_data}

\* C26: the outcome of a call with its target bar inside the list is the
\* outcome of every call with the same accuracy_factor that selects the same
\* window, whatever bars lie before the window and after the target bar.
C26_OnlyTheWindowCounts ==
    (pc = "done" /\ index \in 0 .. Len(kline) - 1 /\ Len(calc_data) > 0)
        => \A c \in SameWindowCalls :
              calculate_chip(c.kl, c.i, args.accuracy_factor, c.rv) = result

\* a ChipResult returned for a window that has a bar before it and a bar with
\* another close after it in the list
C26_Witness ==
    /\ Returned
    /\ start > 0
    /\ index \in 0 .. Len(kline) - 2
    /\ kline[Len(kline)].close # calc_data[Len(calc_data)].close
    /\ Cardinality(SameWindowCalls) = 4

(***************************************************************************)
(* Properties of the sync service                                          *)
(***************************************************************************)
\* the symbols with a 'completed' row in kline_sync_status
MarkedCompleted == {r.symbol : r \in {x \in kline_sync_status : x.status = "completed"}}

\* the init status stored in sync_meta is 'init_completed'
StoredInitCompleted == sync_meta # <<>> /\ sync_meta[1].extra_info = "init_completed"

\* the last sync date stored in sync_meta, <<>> when there is none
StoredLastSyncDate == IF sync_meta = <<>> THEN <<>> ELSE sync_meta[1].sync_end_date

\* C11: a step of init_sync requests bars only for target symbols of the stock
\* pool, and never for a symbol that kline_sync_status marks 'completed' at
\* the time of the request, in whichever run the request is made.
C11_InitSyncSkipsCompleted ==
    [][\A i \in 1 .. Len(requests') :
          requests'[i].op = "init_sync"
              => /\ requests'[i].symbols \cap MarkedCompleted = {}
                 /\ requests'[i].symbols \subseteq Range(get_target_symbols(stock_pool))]_vars

\* a run that resumed (it found completed symbols) has fetched a symbol
C11_Witness ==
    /\ op = "init_sync"
    /\ requests # <<>>
    /\ completed # {}
    /\ requests[1].symbols \cap completed = {}

\* C12: a step of incremental_sync taken while the stored init status is not
\* 'init_completed' makes no request, leaves daily_kline as it is and leaves
\* the sync_meta row (sync date and init status) as it is.
C12_IncrementalNeedsInit ==
    [][(op' = "incremental_sync" /\ ~StoredInitCompleted)
          => /\ requests' = <<>>
             /\ daily_kline' = daily_kline
             /\ sync_meta' = sync_meta]_vars

\* incremental_sync was called after an interrupted initialisation
C12_Witness ==
    /\ op = "incremental_sync"
    /\ sync_meta # <<>>
    /\ sync_meta[1].extra_info = "init_in_progress"
    /\ kline_sync_status # {}
    /\ requests = <<>>

\* C13: every request of incremental_sync made while a last sync date is
\* stored is made when that date is before today, starts on the day after
\* it and ends today; so no request is made when the last sync date is today
\* or later, and no requested date is <= the last sync date.
C13_IncrementalFetchesOnlyNewDays ==
    [][\A i \in 1 .. Len(requests') :
          (requests'[i].op = "incremental_sync" /\ StoredLastSyncDate # <<>>)
              => /\ StoredLastSyncDate[1] < today
                 /\ requests'[i].start_date = StoredLastSyncDate[1] + 1
                 /\ requests'[i].end_date = today]_vars

\* incremental_sync fetched the day after the end of the initialisation
C13_Witness ==
    /\ op = "incremental_sync"
    /\ requests # <<>>
    /\ requests[1].start_date = INIT_END + 1
    /\ requests[1].end_date = today
    /\ StoredLastSyncDate = <<today>>

\* C27: a step of init_sync, retry_failed or incremental_sync leaves in
\* daily_kline every (symbol, date) row that was there before it.
C27_SavedBarsAreKept ==
    [][op' \in {"init_sync", "retry_failed", "incremental_sync"}
          => daily_kline \subseteq daily_kline']_vars

\* C28: a step of the init_sync loop on the next remaining symbol marks that
\* symbol 'completed' exactly when every batch of it was requested and no
\* request or save raised, marks no other symbol, leaves the status table as
\* it was when one raised, and stays in the loop with the rest of the symbols.
C28_MarkedOnlyAfterSuccess ==
    [][(spc = "init_loop" /\ remaining # <<>> /\ op' = "init_sync")
          => LET symbol == Head(remaining)
                 failed == \E i \in 1 .. Len(requests') : requests'[i].raised
             IN  /\ symbol \notin MarkedCompleted
                 /\ failed => kline_sync_status' = kline_sync_status
                 /\ ~failed => /\ Len(requests') = Len(Batches(<<symbol>>))
                                /\ symbol \in MarkedCompleted'
                                /\ MarkedCompleted' = MarkedCompleted \cup {symbol}
                 /\ spc' = "init_loop"
                 /\ remaining' = Tail(remaining)]_vars

\* the request for a symbol of the init_sync loop has raised, the symbol is
\* not marked and the loop has its next symbol to go on with
C28_Witness ==
    /\ op = "init_sync"
    /\ spc = "init_loop"
    /\ requests # <<>>
    /\ requests[Len(requests)].raised
    /\ requests[1].symbols \cap MarkedCompleted = {}
    /\ remaining # <<>>

\* C29: whenever a step of init_sync sets the init status to
\* 'init_completed', every target symbol of the stock pool is marked
\* 'completed' in kline_sync_status.
C29_CompletedMeansAllMarked ==
    [][(op' = "init_sync" /\ ~StoredInitCompleted /\ StoredInitCompleted')
          => Range(get_target_symbols(stock_pool')) \subseteq MarkedCompleted']_vars

(***************************************************************************)
(* Properties of the retry wrapper                                         *)
(***************************************************************************)
\* the i-th call of func raised a message without any of the keywords
PlainFailure(i) == ~attempts[i].ok /\ attempts[i].message = {}

\* what a finished _retry_call has to have done, given the calls of func
RetryOutcomeFits ==
    LET n == Len(attempts)
    IN  IF n > 0 /\ attempts[n].ok
        THEN outcome.kind = "return" /\ outcome.value = attempts[n].value
        ELSE IF n > 0 /\ attempts[n].message \cap {"rate", "limit"} # {}
        THEN outcome.kind = "JuejinRateLimitError"
        ELSE IF n > 0 /\ attempts[n].message \cap {"token", "auth"} # {}
        THEN outcome.kind = "JuejinAuthError"
        ELSE n = max_retries /\ outcome.kind = "JuejinAPIError"

\* C30: _retry_call calls func at most max_retries times; every call but the
\* last raised a failure that is neither a rate-limit nor an auth failure and
\* was followed by a sleep of 1s * 2^attempt; the call ends with the value of
\* the first successful call, with JuejinRateLimitError or JuejinAuthError at
\* the first failure of that kind, or with JuejinAPIError after max_retries
\* failures; and once it has ended func is not called again.
C30_RetryCall ==
    /\ [](rpc \in {"loop", "done"}
            => /\ Len(attempts) <= max_retries
               /\ \A i \in 1 .. Len(attempts) - 1 : PlainFailure(i)
               /\ LET plain == {i \in 1 .. Len(attempts) : PlainFailure(i)}
                  IN  slept = [i \in 1 .. Cardinality(plain) |-> Pow2(i - 1)]
               /\ rpc = "done" => RetryOutcomeFits
               /\ rpc = "loop" => /\ outcome.kind = "none"
                                  /\ \A i \in 1 .. Len(attempts) : PlainFailure(i))
    /\ [][outcome.kind # "none" => attempts' = attempts]_vars

\* func failed twice with a plain error, was called again after sleeps of 1s
\* and 2s, and its value was returned
C30_Witness ==
    /\ rpc = "done"
    /\ Len(attempts) = 3
    /\ slept = <<1, 2>>
    /\ outcome.kind = "return"
    /\ outcome.value = attempts[3].value

====
